---- MODULE Spec2Model ----
(***************************************************************************)
(* A model of src/VncServer.cpp: the VncServer object on the GUI (server)  *)
(* thread, the scene graph (render) thread that runs updateFrameBuffer     *)
(* through a Qt::DirectConnection, and one ClientThread per VNC client.    *)
(*                                                                         *)
(* Threads of the model                                                    *)
(*   server  : event loop of the thread VncServer lives in. It runs        *)
(*             TcpServer::incomingConnection -> addClient, the queued      *)
(*             QThread::quit slots and the queued removeClient slots.      *)
(*   render  : emits QQuickWindow::frameSwapped and runs updateFrameBuffer *)
(*   worker w: ClientThread::run of the ClientThread object w, with the    *)
(*             VncClient on its stack that calls VncServer::frameBuffer.   *)
(***************************************************************************)
EXTENDS Integers, Sequences, FiniteSets, TLC

\* ------------------------------------------------------------------ bounds
MaxAdds == 2        \* accepted connections (ClientThread objects ever made)
MaxCaptures == 2    \* frames the producer renders that are captured
MaxReaders == 1     \* accepted connections under SpecBuf (at most MaxAdds)
MaxWorkers == 3     \* accepted connections under SpecLoop (at least MaxAdds)

Workers == 1..MaxWorkers

\* window sizes <<width, height>> and device pixel ratios in halves (2 = 1.0)
WinSizes == {<<2, 1>>, <<3, 2>>}
Scales2 == {2, 3}

NullImage == [w |-> 0, h |-> 0, ver |-> 0, complete |-> TRUE]
NoAdd == [wasEmpty |-> FALSE, subscribed |-> FALSE, updates |-> 0]
NoRead == [img |-> NullImage, cap |-> <<0, 0>>]

VARIABLES
    \* VncServer
    listening,            \* result of tcpServer->listen() in the constructor
    log,                  \* number of qInfo lines written, by kind
    m_window,             \* TRUE: the QWindow pointer is not null
    m_threads,            \* QVector of ClientThread addresses
    m_grabConnectionId,   \* TRUE: the QMetaObject::Connection handle is valid
    m_frameBuffer,        \* [w, h, ver, complete]
    m_frameBufferMutex,   \* 0: unlocked, -1: held by the render thread,
                          \* w: held by the VncClient of worker w
    \* signal/slot connections and the server thread's event loop
    nSubs,                \* connections frameSwapped -> updateFrameBuffer
    events,               \* queued slot calls posted to the server thread
    spc,                  \* position of the server thread
    scur,                 \* the ClientThread addClient/removeClient works on
    \* ClientThread objects
    thr,                  \* life cycle of each ClientThread
    m_client,             \* TRUE: ClientThread::m_client is not null
    clientAlive,          \* TRUE: the VncClient on run()'s stack exists
    quitReq,              \* QThread::quit() was called
    disc,                 \* the VncClient emitted disconnected
    hpc,                  \* position of the VncClient around frameBuffer()
    notified,             \* version of the capture whose markDirty it got last
    readSeen,             \* notified[w] when its call of frameBuffer() began
    lastRead,             \* the image that call returned, and the size read
                          \* by the last capture that had released the mutex
    \* producer (QQuickWindow and the scene graph thread)
    winSize, dpr2,        \* window size and device pixel ratio (halves)
    updateRequested,      \* QWindow::update() pending
    rcalls,               \* slot calls the running frameSwapped emission owes
    rpc,                  \* position of the render thread
    rsize,                \* size computed by updateFrameBuffer
    rlist, ri,            \* range-for over m_threads: array seen, position
    rtarget,              \* ClientThread whose m_client was found non-null
    rseen,                \* ClientThreads the running range-for has called
    \* history
    nCaptures,            \* updateFrameBuffer calls that took the lock
    lastCapSize,          \* size read by the last capture that released it
    nAdded, nMatched,     \* appends to m_threads, removeOne calls that matched
    rmCount,              \* removeClient calls per ClientThread
    lastAdd,              \* what the last addClient found and did
    lastWait,             \* result of the last thread->wait( 100 )
    markDirtyFault,       \* m_client->markDirty() was called on a destroyed VncClient
    danglingThread,       \* markDirty() was called on a deleted ClientThread
    reclaimedLive         \* a ClientThread was deleted before its thread ended

serverVars == <<listening, log, m_window, m_threads, m_grabConnectionId, nSubs,
                events, spc, scur, nAdded, nMatched, rmCount, lastAdd, lastWait,
                reclaimedLive>>
workerVars == <<thr, m_client, clientAlive, quitReq, disc>>
readerVars == <<hpc, readSeen, lastRead>>
bufferVars == <<m_frameBuffer, m_frameBufferMutex, lastCapSize, nCaptures>>
producerVars == <<winSize, dpr2, updateRequested>>
renderVars == <<rcalls, rpc, rsize, rlist, ri, rtarget, rseen>>
vars == <<serverVars, workerVars, readerVars, bufferVars, producerVars,
          renderVars, notified, markDirtyFault, danglingThread>>

\* ----------------------------------------------------------------- helpers
\* qRound( v * c ) for v >= 0 and c = c2 / 2: QSize operator*( QSize, qreal )
qRoundHalves(v, c2) == (v * c2 + 1) \div 2

ScaledSize(size, c2) == <<qRoundHalves(size[1], c2), qRoundHalves(size[2], c2)>>

ImageSize(img) == <<img.w, img.h>>

Range(s) == {s[i] : i \in 1..Len(s)}

\* a variant that removes the first element whatever it is (removeFirst)
removeOne_first(s, x) == IF s = <<>> THEN <<>> ELSE Tail(s)

\* QVector::removeOne: removes the first occurrence, if there is one
RECURSIVE removeOne(_, _)
removeOne(s, x) ==
    IF s = <<>> THEN <<>>
    ELSE IF Head(s) = x THEN Tail(s)
    ELSE <<Head(s)>> \o removeOne(Tail(s), x)

\* QObject::~QObject: the events posted to the object are removed
RECURSIVE dropEvents(_, _)
dropEvents(q, w) ==
    IF q = <<>> THEN <<>>
    ELSE IF Head(q)[2] = w THEN dropEvents(Tail(q), w)
    ELSE <<Head(q)>> \o dropEvents(Tail(q), w)

\* ------------------------------------------------------------ construction
\* VncServer::VncServer: listen() succeeds or fails; only success is logged
Init ==
    /\ listening \in BOOLEAN
    /\ log = [created |-> IF listening THEN 1 ELSE 0, attached |-> 0, detached |-> 0]
    /\ m_window = TRUE
    /\ m_threads = <<>>
    /\ m_grabConnectionId = FALSE
    /\ m_frameBuffer = NullImage
    /\ m_frameBufferMutex = 0
    /\ nSubs = 0
    /\ events = <<>>
    /\ spc = "idle"
    /\ scur = 0
    /\ thr = [w \in Workers |-> "unborn"]
    /\ m_client = [w \in Workers |-> FALSE]
    /\ clientAlive = [w \in Workers |-> FALSE]
    /\ quitReq = [w \in Workers |-> FALSE]
    /\ disc = [w \in Workers |-> FALSE]
    /\ hpc = [w \in Workers |-> "idle"]
    /\ notified = [w \in Workers |-> 0]
    /\ readSeen = [w \in Workers |-> 0]
    /\ lastRead = [w \in Workers |-> NoRead]
    /\ winSize = <<2, 1>>
    /\ dpr2 = 2
    /\ updateRequested = FALSE
    /\ rcalls = 0
    /\ rpc = "idle"
    /\ rsize = <<0, 0>>
    /\ rlist = <<>>
    /\ ri = 0
    /\ rtarget = 0
    /\ rseen = {}
    /\ nCaptures = 0
    /\ lastCapSize = <<0, 0>>
    /\ nAdded = 0
    /\ nMatched = 0
    /\ rmCount = [w \in Workers |-> 0]
    /\ lastAdd = NoAdd
    /\ lastWait = TRUE
    /\ markDirtyFault = FALSE
    /\ danglingThread = FALSE
    /\ reclaimedLive = FALSE

\* ------------------------------------------------------------ server thread
\* a variant that does what QTcpServer::incomingConnection does by default: a
\* socket object for the descriptor is made on the accepting thread
incomingConnection_makesSocket(maxAdds) ==
    /\ listening
    /\ spc = "idle"
    /\ nAdded < maxAdds
    /\ LET w == nAdded + 1 IN
        /\ thr[w] = "unborn"
        /\ thr' = [thr EXCEPT ![w] = "created"]
        /\ clientAlive' = [clientAlive EXCEPT ![w] = TRUE]
        /\ lastAdd' = [wasEmpty |-> m_threads = <<>>, subscribed |-> FALSE, updates |-> 0]
        /\ m_threads' = Append(m_threads, w)
        /\ scur' = w
    /\ nAdded' = nAdded + 1
    /\ spc' = "add_subscribe"
    /\ UNCHANGED <<listening, log, m_window, m_grabConnectionId, nSubs, events,
                   nMatched, rmCount, lastWait, reclaimedLive>>
    /\ UNCHANGED <<m_client, quitReq, disc>>
    /\ UNCHANGED <<readerVars, bufferVars, producerVars, renderVars, notified,
                   markDirtyFault, danglingThread>>

\* a variant of addClient without "m_threads += thread"
incomingConnection_noAppend(maxAdds) ==
    /\ listening
    /\ spc = "idle"
    /\ nAdded < maxAdds
    /\ LET w == nAdded + 1 IN
        /\ thr[w] = "unborn"
        /\ thr' = [thr EXCEPT ![w] = "created"]
        /\ lastAdd' = [wasEmpty |-> m_threads = <<>>, subscribed |-> FALSE, updates |-> 0]
        /\ scur' = w
    /\ nAdded' = nAdded + 1
    /\ spc' = "add_subscribe"
    /\ UNCHANGED <<listening, log, m_window, m_threads, m_grabConnectionId, nSubs,
                   events, nMatched, rmCount, lastWait, reclaimedLive>>
    /\ UNCHANGED <<m_client, clientAlive, quitReq, disc>>
    /\ UNCHANGED <<readerVars, bufferVars, producerVars, renderVars, notified,
                   markDirtyFault, danglingThread>>

\* TcpServer::incomingConnection emits connectionRequested, a direct call of
\* addClient up to "m_threads += thread"
incomingConnection(maxAdds) ==
    /\ listening
    /\ spc = "idle"
    /\ nAdded < maxAdds
    /\ LET w == nAdded + 1 IN
        /\ thr[w] = "unborn"
        /\ thr' = [thr EXCEPT ![w] = "created"]
        /\ lastAdd' = [wasEmpty |-> m_threads = <<>>, subscribed |-> FALSE, updates |-> 0]
        /\ m_threads' = Append(m_threads, w)
        /\ scur' = w
    /\ nAdded' = nAdded + 1
    /\ spc' = "add_subscribe"
    /\ UNCHANGED <<listening, log, m_window, m_grabConnectionId, nSubs, events,
                   nMatched, rmCount, lastWait, reclaimedLive>>
    /\ UNCHANGED <<m_client, clientAlive, quitReq, disc>>
    /\ UNCHANGED <<readerVars, bufferVars, producerVars, renderVars, notified,
                   markDirtyFault, danglingThread>>

\* a variant of addClient that does not test the connection handle
addClient_mustSubscribe_noHandleTest == m_window

\* addClient: the guard of the subscription
addClient_mustSubscribe == m_window /\ ~m_grabConnectionId

\* addClient: connect frameSwapped, request a render pass, log
addClient_subscribe ==
    /\ spc = "add_subscribe"
    /\ IF addClient_mustSubscribe
       THEN /\ m_grabConnectionId' = TRUE
            /\ nSubs' = nSubs + 1
            /\ updateRequested' = TRUE
            /\ lastAdd' = [lastAdd EXCEPT !.subscribed = TRUE, !.updates = @ + 1]
       ELSE UNCHANGED <<m_grabConnectionId, nSubs, updateRequested, lastAdd>>
    /\ log' = [log EXCEPT !.attached = @ + 1]
    /\ spc' = "add_start"
    /\ UNCHANGED <<listening, m_window, m_threads, events, scur, nAdded, nMatched,
                   rmCount, lastWait, reclaimedLive>>
    /\ UNCHANGED <<winSize, dpr2>>
    /\ UNCHANGED <<workerVars, readerVars, bufferVars, renderVars, notified,
                   markDirtyFault, danglingThread>>

\* a variant of addClient that connects QThread::started, not finished, to
\* removeClient: the slot is queued as soon as the thread runs
addClient_start_onStarted ==
    /\ spc = "add_start"
    /\ thr' = [thr EXCEPT ![scur] = "started"]
    /\ events' = Append(events, <<"finished", scur>>)
    /\ spc' = "idle"
    /\ scur' = 0
    /\ lastAdd' = NoAdd
    /\ UNCHANGED <<listening, log, m_window, m_threads, m_grabConnectionId, nSubs,
                   nAdded, nMatched, rmCount, lastWait, reclaimedLive>>
    /\ UNCHANGED <<m_client, clientAlive, quitReq, disc>>
    /\ UNCHANGED <<readerVars, bufferVars, producerVars, renderVars, notified,
                   markDirtyFault, danglingThread>>

\* addClient: connect finished to removeClient, thread->start()
addClient_start ==
    /\ spc = "add_start"
    /\ thr' = [thr EXCEPT ![scur] = "started"]
    /\ spc' = "idle"
    /\ scur' = 0
    /\ lastAdd' = NoAdd
    /\ UNCHANGED <<listening, log, m_window, m_threads, m_grabConnectionId, nSubs,
                   events, nAdded, nMatched, rmCount, lastWait, reclaimedLive>>
    /\ UNCHANGED <<m_client, clientAlive, quitReq, disc>>
    /\ UNCHANGED <<readerVars, bufferVars, producerVars, renderVars, notified,
                   markDirtyFault, danglingThread>>

\* the queued call of QThread::quit the VncClient's disconnected signal posted
quitSlot ==
    /\ spc = "idle"
    /\ events # <<>>
    /\ Head(events)[1] = "quit"
    /\ quitReq' = [quitReq EXCEPT ![Head(events)[2]] = TRUE]
    /\ events' = Tail(events)
    /\ UNCHANGED <<listening, log, m_window, m_threads, m_grabConnectionId, nSubs,
                   spc, scur, nAdded, nMatched, rmCount, lastAdd, lastWait,
                   reclaimedLive>>
    /\ UNCHANGED <<thr, m_client, clientAlive, disc>>
    /\ UNCHANGED <<readerVars, bufferVars, producerVars, renderVars, notified,
                   markDirtyFault, danglingThread>>

\* removeClient, queued by QThread::finished: m_threads.removeOne( thread )
removeClient_removeOne ==
    /\ spc = "idle"
    /\ events # <<>>
    /\ Head(events)[1] = "finished"
    /\ LET w == Head(events)[2] IN
        /\ m_threads' = removeOne(m_threads, w)
        /\ nMatched' = IF w \in Range(m_threads) THEN nMatched + 1 ELSE nMatched
        /\ rmCount' = [rmCount EXCEPT ![w] = @ + 1]
        /\ scur' = w
    /\ events' = Tail(events)
    /\ spc' = "rm_disconnect"
    /\ UNCHANGED <<listening, log, m_window, m_grabConnectionId, nSubs, nAdded,
                   lastAdd, lastWait, reclaimedLive>>
    /\ UNCHANGED <<workerVars, readerVars, bufferVars, producerVars, renderVars,
                   notified, markDirtyFault,
                   danglingThread>>

\* a variant of removeClient that does not test whether m_threads is empty
removeClient_mustDisconnect_noEmptyTest == m_grabConnectionId

\* removeClient: the guard of the disconnect
removeClient_mustDisconnect == m_threads = <<>> /\ m_grabConnectionId

\* removeClient: QObject::disconnect( m_grabConnectionId ), which also
\* invalidates the handle
removeClient_disconnect ==
    /\ spc = "rm_disconnect"
    /\ IF removeClient_mustDisconnect
       THEN /\ m_grabConnectionId' = FALSE
            /\ nSubs' = nSubs - 1
       ELSE UNCHANGED <<m_grabConnectionId, nSubs>>
    /\ spc' = "rm_wait"
    /\ UNCHANGED <<listening, log, m_window, m_threads, events, scur, nAdded,
                   nMatched, rmCount, lastAdd, lastWait, reclaimedLive>>
    /\ UNCHANGED <<workerVars, readerVars, bufferVars, producerVars, renderVars,
                   notified, markDirtyFault,
                   danglingThread>>

\* removeClient: thread->quit(); thread->wait( 100 ), whose result is dropped.
\* wait returns true once the thread has terminated and false on the timeout.
removeClient_wait ==
    /\ spc = "rm_wait"
    /\ quitReq' = [quitReq EXCEPT ![scur] = TRUE]
    /\ lastWait' = (thr[scur] = "terminated")
    /\ spc' = "rm_delete"
    /\ UNCHANGED <<listening, log, m_window, m_threads, m_grabConnectionId, nSubs,
                   events, scur, nAdded, nMatched, rmCount, lastAdd, reclaimedLive>>
    /\ UNCHANGED <<thr, m_client, clientAlive, disc>>
    /\ UNCHANGED <<readerVars, bufferVars, producerVars, renderVars, notified,
                   markDirtyFault, danglingThread>>

\* removeClient: delete thread, log. QThread::~QThread waits for a thread that
\* is inside QThreadPrivate::finish and is fatal for one that still runs.
removeClient_delete ==
    /\ spc = "rm_delete"
    /\ thr[scur] # "finishing"
    /\ reclaimedLive' = (reclaimedLive \/ thr[scur] # "terminated")
    /\ thr' = [thr EXCEPT ![scur] = "deleted"]
    /\ events' = dropEvents(events, scur)
    /\ log' = [log EXCEPT !.detached = @ + 1]
    /\ spc' = "idle"
    /\ scur' = 0
    /\ quitReq' = [quitReq EXCEPT ![scur] = FALSE]
    /\ UNCHANGED <<listening, m_window, m_threads, m_grabConnectionId, nSubs,
                   nAdded, nMatched, rmCount, lastAdd, lastWait>>
    /\ UNCHANGED <<m_client, clientAlive, disc>>
    /\ UNCHANGED <<readerVars, bufferVars, producerVars, renderVars, notified,
                   markDirtyFault, danglingThread>>

\* ------------------------------------------------------------- ~VncServer
\* the element of m_threads after w, 0 after the last one
nextThread(w) ==
    LET i == CHOOSE k \in 1..Len(m_threads) : m_threads[k] = w
    IN IF i < Len(m_threads) THEN m_threads[i + 1] ELSE 0

\* ~VncServer, called on the server thread between two events:
\* m_window = nullptr, then the loop over m_threads begins
destroy_begin ==
    /\ spc = "idle"
    /\ m_window' = FALSE
    /\ IF m_threads = <<>>
       THEN spc' = "dtor_children" /\ scur' = 0
       ELSE spc' = "dtor_quit" /\ scur' = m_threads[1]
    /\ UNCHANGED <<listening, log, m_threads, m_grabConnectionId, nSubs, events,
                   nAdded, nMatched, rmCount, lastAdd, lastWait, reclaimedLive>>
    /\ UNCHANGED <<workerVars, readerVars, bufferVars, producerVars, renderVars,
                   notified, markDirtyFault, danglingThread>>

\* ~VncServer: thread->quit()
destroy_quit ==
    /\ spc = "dtor_quit"
    /\ quitReq' = [quitReq EXCEPT ![scur] = TRUE]
    /\ spc' = "dtor_wait"
    /\ UNCHANGED <<listening, log, m_window, m_threads, m_grabConnectionId, nSubs,
                   events, scur, nAdded, nMatched, rmCount, lastAdd, lastWait,
                   reclaimedLive>>
    /\ UNCHANGED <<thr, m_client, clientAlive, disc>>
    /\ UNCHANGED <<readerVars, bufferVars, producerVars, renderVars, notified,
                   markDirtyFault, danglingThread>>

\* ~VncServer: thread->wait( 20 ) returns, true if the thread has terminated
\* and false after 20 ms; the loop goes on with the next element
destroy_wait ==
    /\ spc = "dtor_wait"
    /\ lastWait' = (thr[scur] = "terminated")
    /\ scur' = nextThread(scur)
    /\ spc' = IF nextThread(scur) = 0 THEN "dtor_children" ELSE "dtor_quit"
    /\ UNCHANGED <<listening, log, m_window, m_threads, m_grabConnectionId, nSubs,
                   events, nAdded, nMatched, rmCount, lastAdd, reclaimedLive>>
    /\ UNCHANGED <<workerVars, readerVars, bufferVars, producerVars, renderVars,
                   notified, markDirtyFault, danglingThread>>

\* QObject::~QObject of the VncServer: its connections are removed, the events
\* posted to it are dropped and its children, the TcpServer and the
\* ClientThreads, are deleted. QThread::~QThread waits for a thread that is
\* inside QThreadPrivate::finish and is fatal for one that still runs.
destroy_children ==
    /\ spc = "dtor_children"
    /\ \A w \in Range(m_threads) : thr[w] # "finishing"
    /\ reclaimedLive' = (reclaimedLive \/ \E w \in Range(m_threads) : thr[w] # "terminated")
    /\ thr' = [w \in Workers |-> IF w \in Range(m_threads) THEN "deleted" ELSE thr[w]]
    /\ nSubs' = 0
    /\ events' = <<>>
    /\ listening' = FALSE
    /\ spc' = "destroyed"
    /\ UNCHANGED <<log, m_window, m_threads, m_grabConnectionId, scur, nAdded,
                   nMatched, rmCount, lastAdd, lastWait>>
    /\ UNCHANGED <<m_client, clientAlive, quitReq, disc>>
    /\ UNCHANGED <<readerVars, bufferVars, producerVars, renderVars, notified,
                   markDirtyFault, danglingThread>>

\* ----------------------------------------------------------- worker threads
\* ClientThread::run: the VncClient is constructed, its disconnected signal is
\* connected to QThread::quit, m_client = &client
run_begin(w) ==
    /\ thr[w] = "started"
    /\ clientAlive' = [clientAlive EXCEPT ![w] = TRUE]
    /\ m_client' = [m_client EXCEPT ![w] = TRUE]
    /\ thr' = [thr EXCEPT ![w] = "running"]
    /\ UNCHANGED <<quitReq, disc>>
    /\ UNCHANGED <<serverVars, readerVars, bufferVars, producerVars, renderVars,
                   notified, markDirtyFault,
                   danglingThread>>

\* the VncClient emits disconnected inside QThread::run's event loop. The
\* ClientThread object lives in the server thread, so its quit slot is queued.
disconnected(w) ==
    /\ thr[w] = "running"
    /\ hpc[w] = "idle"
    /\ ~disc[w]
    /\ disc' = [disc EXCEPT ![w] = TRUE]
    /\ events' = Append(events, <<"quit", w>>)
    /\ UNCHANGED <<listening, log, m_window, m_threads, m_grabConnectionId, nSubs,
                   spc, scur, nAdded, nMatched, rmCount, lastAdd, lastWait,
                   reclaimedLive>>
    /\ UNCHANGED <<thr, m_client, clientAlive, quitReq>>
    /\ UNCHANGED <<readerVars, bufferVars, producerVars, renderVars, notified,
                   markDirtyFault, danglingThread>>

\* ClientThread::run: QThread::run() returns after quit; m_client = nullptr
run_exit(w) ==
    /\ thr[w] = "running"
    /\ hpc[w] = "idle"
    /\ quitReq[w]
    /\ m_client' = [m_client EXCEPT ![w] = FALSE]
    /\ thr' = [thr EXCEPT ![w] = "cleared"]
    /\ UNCHANGED <<clientAlive, quitReq, disc>>
    /\ UNCHANGED <<serverVars, readerVars, bufferVars, producerVars, renderVars,
                   notified, markDirtyFault,
                   danglingThread>>

\* a variant in which nothing is connected to QThread::finished
run_return_noFinished(w) ==
    /\ thr[w] = "cleared"
    /\ clientAlive' = [clientAlive EXCEPT ![w] = FALSE]
    /\ thr' = [thr EXCEPT ![w] = "finishing"]
    /\ disc' = [disc EXCEPT ![w] = FALSE]
    /\ notified' = [notified EXCEPT ![w] = 0]
    /\ UNCHANGED <<m_client, quitReq>>
    /\ UNCHANGED <<serverVars, readerVars, bufferVars, producerVars, renderVars,
                   markDirtyFault, danglingThread>>

\* a variant in which finished is connected to removeClient with a
\* Qt::DirectConnection: the slot runs on the worker thread
run_return_directRemove(w) ==
    /\ thr[w] = "cleared"
    /\ clientAlive' = [clientAlive EXCEPT ![w] = FALSE]
    /\ thr' = [thr EXCEPT ![w] = "finishing"]
    /\ m_threads' = removeOne(m_threads, w)
    /\ disc' = [disc EXCEPT ![w] = FALSE]
    /\ notified' = [notified EXCEPT ![w] = 0]
    /\ UNCHANGED <<listening, log, m_window, m_grabConnectionId, nSubs, events,
                   spc, scur, nAdded, nMatched, rmCount, lastAdd, lastWait,
                   reclaimedLive>>
    /\ UNCHANGED <<m_client, quitReq>>
    /\ UNCHANGED <<readerVars, bufferVars, producerVars, renderVars, markDirtyFault,
                   danglingThread>>

\* ClientThread::run returns: the VncClient is destroyed, then QThread emits
\* finished, which queues removeClient on the server thread
run_return(w) ==
    /\ thr[w] = "cleared"
    /\ clientAlive' = [clientAlive EXCEPT ![w] = FALSE]
    /\ thr' = [thr EXCEPT ![w] = "finishing"]
    /\ events' = Append(events, <<"finished", w>>)
    /\ disc' = [disc EXCEPT ![w] = FALSE]
    /\ notified' = [notified EXCEPT ![w] = 0]
    /\ UNCHANGED <<listening, log, m_window, m_threads, m_grabConnectionId, nSubs,
                   spc, scur, nAdded, nMatched, rmCount, lastAdd, lastWait,
                   reclaimedLive>>
    /\ UNCHANGED <<m_client, quitReq>>
    /\ UNCHANGED <<readerVars, bufferVars, producerVars, renderVars, markDirtyFault,
                   danglingThread>>

\* the thread of execution ends; QThread::wait returns true from here on
thread_exit(w) ==
    /\ thr[w] = "finishing"
    /\ thr' = [thr EXCEPT ![w] = "terminated"]
    /\ UNCHANGED <<m_client, clientAlive, quitReq, disc>>
    /\ UNCHANGED <<serverVars, readerVars, bufferVars, producerVars, renderVars,
                   notified, markDirtyFault,
                   danglingThread>>

\* ------------------------------------------------- VncServer::frameBuffer()
\* a variant of frameBuffer() without the QMutexLocker
frameBuffer_lock_noLocker(w) ==
    /\ thr[w] = "running"
    /\ hpc[w] = "idle"
    /\ hpc' = [hpc EXCEPT ![w] = "locked"]
    /\ readSeen' = [readSeen EXCEPT ![w] = notified[w]]
    /\ UNCHANGED <<lastRead, bufferVars>>
    /\ UNCHANGED <<serverVars, workerVars, producerVars, renderVars, notified,
                   markDirtyFault, danglingThread>>

\* QMutexLocker locker( &m_frameBufferMutex ), called by the VncClient of w
frameBuffer_lock(w) ==
    /\ thr[w] = "running"
    /\ hpc[w] = "idle"
    /\ m_frameBufferMutex = 0
    /\ m_frameBufferMutex' = w
    /\ hpc' = [hpc EXCEPT ![w] = "locked"]
    /\ readSeen' = [readSeen EXCEPT ![w] = notified[w]]
    /\ UNCHANGED <<lastRead, m_frameBuffer, lastCapSize, nCaptures>>
    /\ UNCHANGED <<serverVars, workerVars, producerVars, renderVars, notified,
                   markDirtyFault, danglingThread>>

\* const auto fb = m_frameBuffer; return fb; the locker releases the mutex
frameBuffer_copy(w) ==
    /\ hpc[w] = "locked"
    /\ lastRead' = [lastRead EXCEPT ![w] = [img |-> m_frameBuffer, cap |-> lastCapSize]]
    /\ m_frameBufferMutex' = 0
    /\ hpc' = [hpc EXCEPT ![w] = "holding"]
    /\ UNCHANGED <<readSeen, m_frameBuffer, lastCapSize, nCaptures>>
    /\ UNCHANGED <<serverVars, workerVars, producerVars, renderVars, notified,
                   markDirtyFault, danglingThread>>

\* the VncClient has used the copy (it encodes and sends it) and drops it
frameBuffer_done(w) ==
    /\ hpc[w] = "holding"
    /\ lastRead' = [lastRead EXCEPT ![w] = NoRead]
    /\ readSeen' = [readSeen EXCEPT ![w] = 0]
    /\ hpc' = [hpc EXCEPT ![w] = "idle"]
    /\ UNCHANGED <<serverVars, workerVars, bufferVars, producerVars, renderVars,
                   notified, markDirtyFault,
                   danglingThread>>

\* ---------------------------------------------- producer and render thread
\* the window is resized or moved to a screen with another pixel ratio; the
\* GUI thread, which is the server thread, handles the event
resizeWindow ==
    /\ spc = "idle"
    /\ \E s \in WinSizes, c \in Scales2 :
        /\ <<s, c>> # <<winSize, dpr2>>
        /\ winSize' = s
        /\ dpr2' = c
    /\ UNCHANGED updateRequested
    /\ UNCHANGED <<serverVars, workerVars, readerVars, bufferVars, renderVars,
                   notified, markDirtyFault,
                   danglingThread>>

\* a variant in which updateFrameBuffer is called after every frame, whether
\* frameSwapped is connected or not
frameSwapped_unconditional(maxCaptures) ==
    /\ rpc = "idle"
    /\ rcalls = 0
    /\ nCaptures < maxCaptures
    /\ updateRequested' = FALSE
    /\ rcalls' = 1
    /\ UNCHANGED <<winSize, dpr2>>
    /\ UNCHANGED <<rpc, rsize, rlist, ri, rtarget, rseen>>
    /\ UNCHANGED <<serverVars, workerVars, readerVars, bufferVars, notified,
                   markDirtyFault, danglingThread>>

\* the scene graph thread has rendered a frame and emits frameSwapped: one
\* direct call of updateFrameBuffer for every connection made in addClient
frameSwapped(maxCaptures) ==
    /\ rpc = "idle"
    /\ rcalls = 0
    /\ nCaptures < maxCaptures
    /\ updateRequested' = FALSE
    /\ rcalls' = nSubs
    /\ UNCHANGED <<winSize, dpr2>>
    /\ UNCHANGED <<rpc, rsize, rlist, ri, rtarget, rseen>>
    /\ UNCHANGED <<serverVars, workerVars, readerVars, bufferVars, notified,
                   markDirtyFault, danglingThread>>

\* a variant of updateFrameBuffer that never reallocates m_frameBuffer
updateFrameBuffer_lock_noRealloc ==
    /\ rpc = "idle"
    /\ rcalls > 0
    /\ m_frameBufferMutex = 0
    /\ m_frameBufferMutex' = -1
    /\ rsize' = ScaledSize(winSize, dpr2)
    /\ m_frameBuffer' = [m_frameBuffer EXCEPT !.ver = nCaptures + 1, !.complete = FALSE]
    /\ nCaptures' = nCaptures + 1
    /\ rcalls' = rcalls - 1
    /\ rpc' = "writing"
    /\ UNCHANGED <<lastCapSize, rlist, ri, rtarget, rseen>>
    /\ UNCHANGED <<serverVars, workerVars, readerVars, producerVars, notified,
                   markDirtyFault, danglingThread>>

\* updateFrameBuffer: the locker is taken, the size is computed, the image is
\* reallocated if the size differs and grabWindow starts to fill it.
\* m_window->size() with m_window null ends the process.
updateFrameBuffer_lock ==
    /\ rpc = "idle"
    /\ rcalls > 0
    /\ m_frameBufferMutex = 0
    /\ m_frameBufferMutex' = -1
    /\ IF m_window
       THEN /\ LET size == ScaledSize(winSize, dpr2) IN
                /\ rsize' = size
                /\ m_frameBuffer' = [w |-> size[1], h |-> size[2],
                                     ver |-> nCaptures + 1, complete |-> FALSE]
            /\ nCaptures' = nCaptures + 1
            /\ rpc' = "writing"
       ELSE /\ rpc' = "crashed"
            /\ UNCHANGED <<rsize, m_frameBuffer, nCaptures>>
    /\ rcalls' = rcalls - 1
    /\ UNCHANGED <<lastCapSize, rlist, ri, rtarget, rseen>>
    /\ UNCHANGED <<serverVars, workerVars, readerVars, producerVars, notified,
                   markDirtyFault, danglingThread>>

\* the position of the range-for of updateFrameBuffer after one more element
loopNext(i, list, seen) ==
    IF i > Len(list)
    THEN rpc' = "idle" /\ ri' = 0 /\ rlist' = <<>> /\ rseen' = {}
    ELSE rpc' = "notify" /\ ri' = i /\ rlist' = list /\ rseen' = seen

\* a variant of updateFrameBuffer whose locker's scope ends before grabWindow:
\* the workers are notified while the image is still being filled
updateFrameBuffer_unlock_beforeGrab ==
    /\ rpc = "writing"
    /\ m_frameBufferMutex' = 0
    /\ lastCapSize' = rsize
    /\ rsize' = <<0, 0>>
    /\ loopNext(1, m_threads, {})
    /\ UNCHANGED <<m_frameBuffer, nCaptures, rcalls, rtarget>>
    /\ UNCHANGED <<serverVars, workerVars, readerVars, producerVars, notified,
                   markDirtyFault, danglingThread>>

\* updateFrameBuffer: grabWindow has filled the image, the locker's scope ends;
\* the range-for takes begin() and end() of m_threads
updateFrameBuffer_unlock ==
    /\ rpc = "writing"
    /\ m_frameBuffer' = [m_frameBuffer EXCEPT !.complete = TRUE]
    /\ m_frameBufferMutex' = 0
    /\ lastCapSize' = rsize
    /\ rsize' = <<0, 0>>
    /\ loopNext(1, m_threads, {})
    /\ UNCHANGED <<nCaptures, rcalls, rtarget>>
    /\ UNCHANGED <<serverVars, workerVars, readerVars, producerVars, notified,
                   markDirtyFault, danglingThread>>

\* what the iterator of the range-for can find at position i: m_threads is
\* read without a lock, so the element is the one seen at begin() or the one
\* the server thread has moved there since
arraySlot(i) ==
    {rlist[i]} \cup (IF i <= Len(m_threads) THEN {m_threads[i]} ELSE {})

\* ClientThread::markDirty: the test of m_client. A ClientThread that was
\* deleted is freed memory.
markDirty_test ==
    /\ rpc = "notify"
    /\ \E w \in arraySlot(ri) :
        IF thr[w] = "deleted"
        THEN /\ danglingThread' = TRUE
             /\ loopNext(ri + 1, rlist, rseen \cup {w})
             /\ UNCHANGED rtarget
        ELSE IF m_client[w]
        THEN /\ rpc' = "call"
             /\ rtarget' = w
             /\ rseen' = rseen \cup {w}
             /\ UNCHANGED <<ri, rlist, danglingThread>>
        ELSE /\ loopNext(ri + 1, rlist, rseen \cup {w})
             /\ UNCHANGED <<rtarget, danglingThread>>
    /\ UNCHANGED <<rcalls, rsize>>
    /\ UNCHANGED <<serverVars, workerVars, readerVars, bufferVars, producerVars,
                   notified, markDirtyFault>>

\* ClientThread::markDirty: m_client->markDirty() on the VncClient the test
\* found; the VncClient learns of the capture that has just been completed
markDirty_call ==
    /\ rpc = "call"
    /\ IF clientAlive[rtarget]
       THEN /\ notified' = [notified EXCEPT ![rtarget] = nCaptures]
            /\ UNCHANGED markDirtyFault
       ELSE /\ markDirtyFault' = TRUE
            /\ UNCHANGED notified
    /\ loopNext(ri + 1, rlist, rseen)
    /\ rtarget' = 0
    /\ UNCHANGED <<rcalls, rsize, danglingThread>>
    /\ UNCHANGED <<serverVars, workerVars, readerVars, bufferVars, producerVars>>

\* ------------------------------------------------------------ specification
serverStep(maxAdds) ==
    \/ incomingConnection(maxAdds)
    \/ addClient_subscribe
    \/ addClient_start
    \/ quitSlot
    \/ removeClient_removeOne
    \/ removeClient_disconnect
    \/ removeClient_wait
    \/ removeClient_delete

workerStep(w) ==
    \/ run_begin(w)
    \/ disconnected(w)
    \/ run_exit(w)
    \/ run_return(w)
    \/ thread_exit(w)

readerStep(w) ==
    \/ frameBuffer_lock(w)
    \/ frameBuffer_copy(w)
    \/ frameBuffer_done(w)

renderStep(maxCaptures) ==
    \/ frameSwapped(maxCaptures)
    \/ updateFrameBuffer_lock
    \/ updateFrameBuffer_unlock
    \/ markDirty_test
    \/ markDirty_call

\* the whole program
Next ==
    \/ serverStep(MaxAdds)
    \/ \E w \in Workers : workerStep(w)
    \/ \E w \in Workers : readerStep(w)
    \/ resizeWindow
    \/ renderStep(MaxCaptures)

Spec == Init /\ [][Next]_vars

\* the server thread and the worker threads while the producer renders nothing
NextConn ==
    \/ serverStep(MaxAdds)
    \/ \E w \in Workers : workerStep(w)

SpecConn == Init /\ [][NextConn]_vars

\* the server, worker and render threads; no VncClient asks for the image
NextNotify ==
    \/ serverStep(MaxAdds)
    \/ \E w \in Workers : workerStep(w)
    \/ renderStep(MaxCaptures)

SpecNotify == Init /\ [][NextNotify]_vars

\* the whole program with fewer connections
NextBuf ==
    \/ serverStep(MaxReaders)
    \/ \E w \in Workers : workerStep(w)
    \/ \E w \in Workers : readerStep(w)
    \/ resizeWindow
    \/ renderStep(MaxCaptures)

SpecBuf == Init /\ [][NextBuf]_vars

\* the server, worker and render threads with one more connection, so that a
\* ClientThread can stand between two others in m_threads
NextLoop ==
    \/ serverStep(MaxWorkers)
    \/ \E w \in Workers : workerStep(w)
    \/ renderStep(MaxCaptures)

SpecLoop == Init /\ [][NextLoop]_vars

\* the server, worker and render threads of a VncServer that is destroyed at
\* some point
destroyStep ==
    \/ destroy_begin
    \/ destroy_quit
    \/ destroy_wait
    \/ destroy_children

NextDestroy ==
    \/ serverStep(MaxAdds)
    \/ \E w \in Workers : workerStep(w)
    \/ renderStep(MaxCaptures)
    \/ destroyStep

SpecDestroy == Init /\ [][NextDestroy]_vars

\* the server and worker threads under the scheduling Qt gives them: the event
\* loop of the server thread keeps taking events and each thread keeps running
serverInternal ==
    \/ addClient_subscribe
    \/ addClient_start
    \/ quitSlot
    \/ removeClient_removeOne
    \/ removeClient_disconnect
    \/ removeClient_wait
    \/ removeClient_delete

FairConn ==
    /\ Init /\ [][NextConn]_vars
    /\ WF_vars(serverInternal)
    /\ \A w \in Workers : WF_vars(run_begin(w) \/ run_exit(w) \/ run_return(w) \/ thread_exit(w))

\* ------------------------------------------------------------------ claims
\* the order of the life cycle of a ClientThread
thrRank(t) ==
    CASE t = "unborn" -> 0
      [] t = "created" -> 1
      [] t = "started" -> 2
      [] t = "running" -> 3
      [] t = "cleared" -> 4
      [] t = "finishing" -> 5
      [] t = "terminated" -> 6
      [] t = "deleted" -> 7

NoDuplicates(s) == \A i, j \in 1..Len(s) : s[i] = s[j] => i = j

\* C1: whenever no addClient or removeClient is running, the frameSwapped
\* connection exists if and only if m_threads is not empty (and the handle
\* m_grabConnectionId is valid exactly then).
C1_SubscribedIffClients ==
    spc = "idle" =>
        /\ (nSubs > 0) <=> (m_threads # <<>>)
        /\ m_grabConnectionId <=> (nSubs > 0)

\* C1 witness: the first client is gone, the second is still attached and the
\* connection is active
C1_Witness ==
    /\ spc = "idle"
    /\ thr[1] = "deleted"
    /\ m_threads = <<2>>
    /\ nSubs = 1

\* C2: m_threads never holds a ClientThread twice; once the running call has
\* completed its length is the number of appends minus the number of
\* removeOne calls that matched, and it is empty when removeClient has run
\* for every ClientThread that was added.
C2_SetSize ==
    /\ NoDuplicates(m_threads)
    /\ spc = "idle" =>
        /\ Len(m_threads) = nAdded - nMatched
        /\ (\A w \in 1..nAdded : rmCount[w] >= 1) => m_threads = <<>>

\* C2 witness: two clients were added, the second one was removed first
C2_Witness ==
    /\ spc = "idle"
    /\ nAdded = 2
    /\ nMatched = 1
    /\ m_threads = <<1>>

\* C3: m_client->markDirty() is never called on a VncClient that has been
\* destroyed.
C3_MarkDirtyInsideLifetime == ~markDirtyFault

\* C4: the image frameBuffer() returns to a VncClient is completely written
\* and is the capture the VncClient was last notified of before the call, or
\* a later one.
C4_ReadSeesNotifiedCapture ==
    \A w \in Workers :
        hpc[w] = "holding" =>
            /\ lastRead[w].img.complete
            /\ lastRead[w].img.ver >= readSeen[w]

\* C4 witness: a VncClient that was notified of a capture holds a copy
C4_Witness == \E w \in Workers : hpc[w] = "holding" /\ readSeen[w] >= 1

\* C5: the image frameBuffer() returns has the size (window size times device
\* pixel ratio) read by the last capture that had released the mutex when the
\* copy was made; before the first capture it is the null image.
C5_ReadHasCapturedSize ==
    \A w \in Workers :
        hpc[w] = "holding" =>
            /\ ImageSize(lastRead[w].img) = lastRead[w].cap
            /\ lastRead[w].img.ver = 0 => lastRead[w].img = NullImage

\* C5 witness: a copy of the second capture, taken after the window changed
\* to 3x2 at ratio 1.5, is 5x3
C5_Witness ==
    \E w \in Workers :
        /\ hpc[w] = "holding"
        /\ lastRead[w].img.ver = 2
        /\ ImageSize(lastRead[w].img) = <<5, 3>>

\* C6: no VncClient is inside the copy of frameBuffer() while updateFrameBuffer
\* is between taking and releasing the mutex, and whoever is in its section
\* owns the mutex.
C6_NoReadDuringCapture ==
    /\ \A w \in Workers : ~(rpc = "writing" /\ hpc[w] = "locked")
    /\ rpc = "writing" => m_frameBufferMutex = -1
    /\ \A w \in Workers : hpc[w] = "locked" => m_frameBufferMutex = w

\* C6 witness: a VncClient is inside frameBuffer() while a capture is due
C6_Witness == \E w \in Workers : hpc[w] = "locked" /\ rcalls > 0 /\ rpc = "idle"

\* C7: a ClientThread is deleted by removeClient only after its thread has
\* terminated, and the VncClient of a deleted ClientThread no longer exists.
C7_DeletedAfterTermination ==
    /\ ~reclaimedLive
    /\ \A w \in Workers : thr[w] = "deleted" => ~clientAlive[w] /\ ~m_client[w]

\* C7 witness: the only removeClient so far found wait( 100 ) expired and has
\* deleted the ClientThread
C7_Witness ==
    /\ spc = "idle"
    /\ nMatched = 1
    /\ thr[1] = "deleted"
    /\ ~lastWait

\* C8: removeClient runs at most once for a ClientThread; a client whose
\* VncClient emitted disconnected, and a ClientThread whose run() has returned,
\* is eventually removed from m_threads by exactly one removeClient.
C8_RemovedExactlyOnce ==
    /\ [](\A w \in Workers : rmCount[w] <= 1)
    /\ \A w \in Workers :
        disc[w] ~> (rmCount[w] = 1 /\ w \notin Range(m_threads))
    /\ \A w \in Workers :
        (thr[w] \in {"finishing", "terminated"}) ~> (rmCount[w] = 1 /\ w \notin Range(m_threads))

\* C8 witness: a client that disconnected has been removed and deleted
C8_Witness ==
    \E w \in Workers : rmCount[w] = 1 /\ thr[w] = "deleted" /\ w \notin Range(m_threads)

\* C9: addClient connects frameSwapped and requests one render pass exactly
\* when m_threads was empty before the call, and there is never more than one
\* connection.
C9_SubscribeOnFirstClientOnly ==
    /\ nSubs <= 1
    /\ spc = "add_start" =>
        /\ lastAdd.subscribed <=> lastAdd.wasEmpty
        /\ lastAdd.updates = (IF lastAdd.wasEmpty THEN 1 ELSE 0)

\* C9 witness: a second client is added while the connection is active
C9_Witness ==
    /\ spc = "add_start"
    /\ ~lastAdd.wasEmpty
    /\ ~lastAdd.subscribed
    /\ lastAdd.updates = 0
    /\ Len(m_threads) = 2
    /\ nSubs = 1

\* C10: if listen() failed in the constructor, exactly one line has been
\* logged and the server stays inert.
C10_ListenFailureLoggedOnce ==
    ~listening =>
        /\ log.created + log.attached + log.detached = 1
        /\ m_threads = <<>>
        /\ nAdded = 0
        /\ nSubs = 0

\* C10, the part that holds: after a failed listen() no client is ever added
\* and frameSwapped is never connected
C10_InertAfterListenFailure ==
    ~listening => m_threads = <<>> /\ nAdded = 0 /\ nSubs = 0 /\ rcalls = 0

\* C11: removeClient arrives at "delete thread" only after wait( 100 ) has
\* returned true: an expired wait is never followed by the same statements as
\* a successful one.
C11_ReclaimOnlyAfterSuccessfulWait == spc = "rm_delete" => lastWait

\* C12: a client's disconnect affects that client only. The render thread,
\* which notifies every client, never calls into the destroyed VncClient or
\* the deleted ClientThread of one client while the ClientThread of another
\* client is in m_threads with its thread running.
C12_TeardownIsolated ==
    \A w \in Workers :
        (\/ rpc = "call" /\ rtarget = w /\ ~clientAlive[w]
         \/ rpc = "notify" /\ thr[w] = "deleted" /\ w \in arraySlot(ri))
        => ~\E v \in Workers \ {w} : v \in Range(m_threads) /\ thr[v] = "running"

\* C12, the part that holds: a step of removeClient for one ClientThread
\* changes nothing of another ClientThread, keeps the others in m_threads,
\* leaves m_frameBuffer alone and keeps the frameSwapped connection while
\* m_threads is not empty
C12_RemovalLeavesOthers ==
    [][(spc' # spc /\ {spc, spc'} \cap {"rm_disconnect", "rm_wait", "rm_delete"} # {}) =>
        LET w == IF spc = "idle" THEN scur' ELSE scur IN
        /\ \A v \in Workers \ {w} :
            /\ thr'[v] = thr[v]
            /\ m_client'[v] = m_client[v]
            /\ clientAlive'[v] = clientAlive[v]
            /\ quitReq'[v] = quitReq[v]
            /\ notified'[v] = notified[v]
            /\ v \in Range(m_threads) <=> v \in Range(m_threads')
        /\ m_frameBuffer' = m_frameBuffer
        /\ m_threads' # <<>> => nSubs' = nSubs /\ m_grabConnectionId' = m_grabConnectionId]_vars

\* C13, the part that holds: markDirty() is called only after the capture has
\* filled m_frameBuffer and released m_frameBufferMutex
C13_NotifyAfterUnlock ==
    rpc \in {"notify", "call"} =>
        /\ m_frameBufferMutex # -1
        /\ m_frameBuffer.complete
        /\ m_frameBuffer.ver = nCaptures

\* C13: every updateFrameBuffer calls markDirty() on every ClientThread that
\* is in m_threads, and only after it has filled m_frameBuffer and released
\* the mutex: once the range-for has passed a position, the ClientThread that
\* was there when the loop began, if it is still in m_threads, has been called.
C13_NotifyEveryWorkerAfterUnlock ==
    /\ C13_NotifyAfterUnlock
    /\ rpc \in {"notify", "call"} =>
        \A j \in 1..(ri - 1) :
            rlist[j] \in Range(m_threads) => rlist[j] \in rseen

\* C14: m_threads is changed only by the server thread, as the first statement
\* of an addClient or removeClient that its event loop has started while no
\* other handler was running; accept events and finished events, which come
\* from other threads, wait in the event loop until then.
C14_MutationsSerialized ==
    [][m_threads' # m_threads =>
        /\ spc = "idle"
        /\ spc' \in {"add_subscribe", "rm_disconnect"}]_vars

\* C14 witness: the finished signal of a worker thread is queued for
\* removeClient while addClient is running
C14_Witness ==
    /\ spc \in {"add_subscribe", "add_start"}
    /\ events # <<>>
    /\ Head(events)[1] = "finished"
    /\ Head(events)[2] \in Range(m_threads)

\* C15: an updateFrameBuffer that finds m_threads empty when it has filled the
\* image leaves a complete image of the size it computed and calls markDirty()
\* on nothing; and while frameSwapped is not connected and no emission is in
\* progress, no step (a frame swapped by the producer included) starts a call
\* of updateFrameBuffer or changes m_frameBuffer.
C15_CaptureWithoutClients ==
    [][/\ (rpc = "writing" /\ rpc' # "writing" /\ m_threads = <<>>) =>
            /\ m_frameBuffer'.complete
            /\ ImageSize(m_frameBuffer') = rsize
            /\ m_frameBuffer'.ver = nCaptures
            /\ rpc' = "idle"
            /\ notified' = notified
       /\ (nSubs = 0 /\ rcalls = 0 /\ rpc = "idle") =>
            /\ rcalls' = 0
            /\ rpc' = "idle"
            /\ m_frameBuffer' = m_frameBuffer]_vars

\* C15 witness: the only client has been removed and frameSwapped has been
\* disconnected while updateFrameBuffer, called for a frame swapped before
\* that in a resized window, fills the image
C15_Witness ==
    /\ rpc = "writing"
    /\ m_threads = <<>>
    /\ nSubs = 0
    /\ rsize = <<5, 3>>

\* C16, as amended: the accepting step only hands the descriptor to addClient
\* and nothing on the server thread makes a VncClient; the VncClient of a
\* ClientThread is constructed once, by run() on the started thread, and is
\* destroyed by the return of run() on that thread; a ClientThread never goes
\* back in its life cycle. (markDirty() is called on it by the render thread.)
C16_ConstructedAndDestroyedInRun ==
    [][\A w \in Workers :
        /\ thrRank(thr'[w]) >= thrRank(thr[w])
        /\ (~clientAlive[w] /\ clientAlive'[w]) =>
            thr[w] = "started" /\ thr'[w] = "running"
        /\ (clientAlive[w] /\ ~clientAlive'[w]) =>
            thr[w] = "cleared" /\ thr'[w] = "finishing"
        /\ clientAlive[w] => thr[w] \in {"running", "cleared"}
        /\ spc' # spc => clientAlive'[w] = clientAlive[w] /\ m_client'[w] = m_client[w]]_vars

\* C16 witness: the VncClient of a ClientThread was constructed by its running
\* thread and the render thread has called markDirty() on it
C16_Witness ==
    \E w \in Workers : thr[w] = "running" /\ clientAlive[w] /\ notified[w] >= 1

\* C16: the above, and the VncClient is used on the thread of its ClientThread
\* only: no other thread is ever inside a call of one of its members.
C16_HandlerOnWorkerThreadOnly ==
    /\ C16_ConstructedAndDestroyedInRun
    /\ [](rpc = "call" => ~clientAlive[rtarget])

\* C17: while the range-for of updateFrameBuffer is between begin() and its
\* last element, m_threads is not changed by addClient or removeClient, and
\* the loop never calls markDirty() on a ClientThread that removeClient has
\* deleted.
C17_LoopNeverRacesMutation ==
    /\ [][m_threads' # m_threads => rpc \notin {"notify", "call"}]_vars
    /\ [](~danglingThread)

\* C17, the second half alone: no markDirty() on a deleted ClientThread
C17_NoCallOnDeletedThread == ~danglingThread

\* C18: the range-for of updateFrameBuffer never passes a ClientThread of
\* m_threads without calling its VncClient because run() has not constructed
\* the VncClient yet (the thread is not started or has not reached
\* m_client = &client).
C18_NoNotificationLostAtStartup ==
    [][\A w \in Workers :
        (/\ rpc = "notify"
         /\ ri' # ri
         /\ arraySlot(ri) = {w}
         /\ w \in Range(m_threads))
        => thr[w] \notin {"created", "started"}]_vars

\* a step in which updateFrameBuffer reads m_window (it takes the lock and
\* computes the size) or m_threads (it takes begin() and end(), or an element)
updateFrameBuffer_reads ==
    \/ rpc = "idle" /\ rpc' # "idle"
    \/ rpc = "writing" /\ rpc' # "writing"
    \/ rpc = "notify" /\ (rpc' # "notify" \/ ri' # ri)

\* C19: once ~VncServer has set m_window to null, updateFrameBuffer reads
\* neither m_window nor m_threads on the render thread, and no ClientThread is
\* deleted before its thread has terminated.
C19_DestructionSafe ==
    /\ [][~m_window => ~updateFrameBuffer_reads]_vars
    /\ [](~reclaimedLive)
    /\ [](rpc # "crashed")

\* C19, per part: no read of the null m_window
C19_NoNullWindowRead == rpc # "crashed"

\* C19, per part: no ClientThread is deleted while its thread runs
C19_ThreadsTerminatedAtDelete == ~reclaimedLive

\* C20: a ClientThread is in m_threads when addClient starts its thread, every
\* removeClient finds its ClientThread in m_threads, and for a thread that has
\* emitted finished a removeClient is queued, running or done.
C20_InSetAndConnectedBeforeStart ==
    /\ [][\A w \in Workers :
            /\ (thr[w] = "created" /\ thr'[w] = "started") => w \in Range(m_threads)
            /\ rmCount'[w] # rmCount[w] => w \in Range(m_threads)]_vars
    /\ [](\A w \in Workers :
            thr[w] \in {"finishing", "terminated"} =>
                \/ rmCount[w] = 1
                \/ \E i \in 1..Len(events) : events[i] = <<"finished", w>>)

\* C20 witness: a thread has terminated and its removeClient is still queued
\* behind the addClient of the next client
C20_Witness ==
    \E w \in Workers :
        /\ thr[w] = "terminated"
        /\ rmCount[w] = 0
        /\ w \in Range(m_threads)
        /\ spc = "add_start"
        /\ scur # w

====
